---- MODULE Spec2Model ----
(***************************************************************************)
(* Square integer matrix multiplication: the classical triple loop, the    *)
(* Strassen and Strassen-Winograd recursions with zero padding             *)
(* (utility/matrix_benchmark.py) and the Strassen recursion with the       *)
(* odd-order fallback and no padding (utility/answer.py).                  *)
(*                                                                         *)
(* A matrix is a Python list of rows: a sequence of sequences of integers. *)
(* A call either returns a value or raises; a call's outcome is the record *)
(* [tag, val], tag "ok" or the name of the exception raised.              *)
(***************************************************************************)
EXTENDS Integers, Sequences, FiniteSets, TLC

VARIABLES A, B, cutoff, called, ret, store

vars == <<A, B, cutoff, called, ret, store>>

(* ------------------------------ bounds -------------------------------- *)

\* Largest number of rows or columns of an operand.
MaxN == 6
\* Number of distinct operand fillings per shape.
MaxSeed == 3
\* Largest cutoff passed to an entry point.
MaxCutoff == 3
\* Depth of nested core calls the interpreter allows before RecursionError.
RecursionLimit == 5
\* Largest number of rows or columns of an operand held in the object store.
HeapMaxN == 4

(* --------------------------- Python values ---------------------------- *)

Ok(v) == [tag |-> "ok", val |-> v]
Raise(e) == [tag |-> e, val |-> <<>>]

\* s[:m]
Take(s, m) == SubSeq(s, 1, IF m < Len(s) THEN m ELSE Len(s))
\* s[m:]
Drop(s, m) == SubSeq(s, m + 1, Len(s))
\* [0] * k
Zeros(k) == [j \in 1..k |-> 0]

\* x.bit_length() for x >= 0
RECURSIVE bit_length(_)
bit_length(x) == IF x = 0 THEN 0 ELSE 1 + bit_length(x \div 2)

\* 1 << k
RECURSIVE shl1(_)
shl1(k) == IF k = 0 THEN 1 ELSE 2 * shl1(k - 1)

\* x & y for x, y >= 0
RECURSIVE BitAnd(_, _)
BitAnd(x, y) ==
    IF x = 0 \/ y = 0 THEN 0
    ELSE (IF x % 2 = 1 /\ y % 2 = 1 THEN 1 ELSE 0) + 2 * BitAnd(x \div 2, y \div 2)

(* ------------------- matrix_benchmark.py: dense ops -------------------- *)

\* Whether every index the loops of an n-by-n operation read exists:
\* X[i][k] for i, k < n.
Readable(X, n) == Len(X) >= n /\ \A i \in 1..n : Len(X[i]) >= n

\* Ci[j] += aik * Bk[j] for j in range(n)
AccRow(Ci, aik, Bk, n) == [j \in 1..n |-> Ci[j] + aik * Bk[j]]

\* The k-loop of matmul_classic on one row, after its first k iterations.
RECURSIVE ClassicRow(_, _, _, _)
ClassicRow(rowA, Bm, n, k) ==
    IF k = 0 THEN Zeros(n)
    ELSE AccRow(ClassicRow(rowA, Bm, n, k - 1), rowA[k], Bm[k], n)

matmul_classic(X, Y) ==
    LET n == Len(X)
    IN  IF Readable(X, n) /\ Readable(Y, n)
        THEN Ok([i \in 1..n |-> ClassicRow(X[i], Y, n, n)])
        ELSE Raise("IndexError")

add_matrix(X, Y) ==
    LET n == Len(X)
    IN  IF Readable(X, n) /\ Readable(Y, n)
        THEN Ok([i \in 1..n |-> [j \in 1..n |-> X[i][j] + Y[i][j]]])
        ELSE Raise("IndexError")

sub_matrix(X, Y) ==
    LET n == Len(X)
    IN  IF Readable(X, n) /\ Readable(Y, n)
        THEN Ok([i \in 1..n |-> [j \in 1..n |-> X[i][j] - Y[i][j]]])
        ELSE Raise("IndexError")

\* add_matrix and sub_matrix on arguments that are themselves outcomes of
\* calls, evaluated left to right: the first exception propagates.
add_r(x, y) ==
    IF x.tag # "ok" THEN Raise(x.tag)
    ELSE IF y.tag # "ok" THEN Raise(y.tag)
    ELSE add_matrix(x.val, y.val)

sub_r(x, y) ==
    IF x.tag # "ok" THEN Raise(x.tag)
    ELSE IF y.tag # "ok" THEN Raise(y.tag)
    ELSE sub_matrix(x.val, y.val)

(* ---------------------- quadrant split and join ------------------------ *)

\* [row[:m] for row in X[:m]] and its three siblings
q11(X, m) == LET R == Take(X, m) IN [i \in 1..Len(R) |-> Take(R[i], m)]
q12(X, m) == LET R == Take(X, m) IN [i \in 1..Len(R) |-> Drop(R[i], m)]
q21(X, m) == LET R == Drop(X, m) IN [i \in 1..Len(R) |-> Take(R[i], m)]
q22(X, m) == LET R == Drop(X, m) IN [i \in 1..Len(R) |-> Drop(R[i], m)]

\* [c11[i] + c12[i] for i in range(m)] + [c21[i] + c22[i] for i in range(m)]
JoinVal(c11, c12, c21, c22, m) ==
    IF Len(c11) >= m /\ Len(c12) >= m /\ Len(c21) >= m /\ Len(c22) >= m
    THEN Ok([i \in 1..m |-> c11[i] \o c12[i]] \o [i \in 1..m |-> c21[i] \o c22[i]])
    ELSE Raise("IndexError")

Join(c11, c12, c21, c22, m) ==
    IF c11.tag # "ok" THEN Raise(c11.tag)
    ELSE IF c12.tag # "ok" THEN Raise(c12.tag)
    ELSE IF c21.tag # "ok" THEN Raise(c21.tag)
    ELSE IF c22.tag # "ok" THEN Raise(c22.tag)
    ELSE JoinVal(c11.val, c12.val, c21.val, c22.val, m)

(* ------------------------ instrumented outcomes ------------------------ *)

\* The outcome of a core call carries the calls made to the core below and
\* including it: each [order, branch, level], level 0 for the call made by
\* the entry point.
Traced(r, cs) == [tag |-> r.tag, val |-> r.val, calls |-> cs]
CallRec(n, br, d) == [order |-> n, branch |-> br, level |-> d]

\* The calls made by the sub-products evaluated before (and including) the
\* first that raised.
CallsUpTo(ms, f) ==
    UNION {ms[i].calls : i \in 1..(IF f > Len(ms) THEN Len(ms) ELSE f)}

(* ---------------- matrix_benchmark.py: Strassen ------------------------ *)

\* A recursive call whose arguments are outcomes: an argument that raised
\* propagates before the call is made.
NoCall(e) == Traced(Raise(e), {})

\* if n <= cutoff, taken strictly: an order equal to the cutoff is split
BaseCase_Strict(n, c) == n < c

\* if n <= cutoff: the base case of a recursive core
BaseCase(n, c) == n <= c

\* m = n // 2
Half(n) == n \div 2

\* The combination with the sign of M6 slipped in c22.
StrassenCombine_SignSlip(M, m) ==
    LET c11 == sub_r(add_r(add_r(M[1], M[4]), M[7]), M[5])
        c12 == add_r(M[3], M[5])
        c21 == add_r(M[2], M[4])
        c22 == sub_r(sub_r(add_r(M[1], M[3]), M[2]), M[6])
    IN  Join(c11, c12, c21, c22, m)

\* c11 = M1 + M4 + M7 - M5, c12 = M3 + M5, c21 = M2 + M4,
\* c22 = M1 + M3 - M2 + M6, then the four blocks joined.
StrassenCombine(M, m) ==
    LET c11 == sub_r(add_r(add_r(M[1], M[4]), M[7]), M[5])
        c12 == add_r(M[3], M[5])
        c21 == add_r(M[2], M[4])
        c22 == add_r(sub_r(add_r(M[1], M[3]), M[2]), M[6])
    IN  Join(c11, c12, c21, c22, m)

RECURSIVE _strassen_core(_, _, _, _)
_strassen_core(X, Y, c, d) ==
    LET n == Len(X)
    IN  IF d > RecursionLimit THEN NoCall("RecursionError")
        ELSE IF BaseCase(n, c) THEN Traced(matmul_classic(X, Y), {CallRec(n, "classic", d)})
        ELSE
        LET m == Half(n)
            a11 == q11(X, m)
            a12 == q12(X, m)
            a21 == q21(X, m)
            a22 == q22(X, m)
            b11 == q11(Y, m)
            b12 == q12(Y, m)
            b21 == q21(Y, m)
            b22 == q22(Y, m)
            rec(x, y) ==
                IF x.tag # "ok" THEN NoCall(x.tag)
                ELSE IF y.tag # "ok" THEN NoCall(y.tag)
                ELSE _strassen_core(x.val, y.val, c, d + 1)
            M1 == rec(add_matrix(a11, a22), add_matrix(b11, b22))
            M2 == rec(add_matrix(a21, a22), Ok(b11))
            M3 == rec(Ok(a11), sub_matrix(b12, b22))
            M4 == rec(Ok(a22), sub_matrix(b21, b11))
            M5 == rec(add_matrix(a11, a12), Ok(b22))
            M6 == rec(sub_matrix(a21, a11), add_matrix(b11, b12))
            M7 == rec(sub_matrix(a12, a22), add_matrix(b21, b22))
            me == {CallRec(n, "split", d)}
            fail(ms) == Traced(Raise(ms[Len(ms)].tag), me \cup CallsUpTo(ms, Len(ms)))
        IN  IF M1.tag # "ok" THEN fail(<<M1>>)
            ELSE IF M2.tag # "ok" THEN fail(<<M1, M2>>)
            ELSE IF M3.tag # "ok" THEN fail(<<M1, M2, M3>>)
            ELSE IF M4.tag # "ok" THEN fail(<<M1, M2, M3, M4>>)
            ELSE IF M5.tag # "ok" THEN fail(<<M1, M2, M3, M4, M5>>)
            ELSE IF M6.tag # "ok" THEN fail(<<M1, M2, M3, M4, M5, M6>>)
            ELSE IF M7.tag # "ok" THEN fail(<<M1, M2, M3, M4, M5, M6, M7>>)
            ELSE Traced(StrassenCombine(<<M1, M2, M3, M4, M5, M6, M7>>, m),
                        me \cup CallsUpTo(<<M1, M2, M3, M4, M5, M6, M7>>, 7))

\* n & (n - 1) is non-zero: n is not a power of two
NotPow2(n) == BitAnd(n, n - 1) # 0
\* Padding to the next even order instead of the next power of two.
PaddedOrder_NextEven(n) == n + (n % 2)

\* 1 << (n - 1).bit_length()
PaddedOrder(n) == shl1(bit_length(n - 1))
\* [row + [0] * (m - n) for row in X] + [[0] * m for _ in range(m - n)]
Pad(X, n, m) == [i \in 1..Len(X) |-> X[i] \o Zeros(m - n)] \o [i \in 1..(m - n) |-> Zeros(m)]
\* The crop that keeps the first n rows whole: Cp[:n]
Crop_RowsOnly(Cp, n) == Take(Cp, n)

\* [row[:n] for row in Cp[:n]]
Crop(Cp, n) == LET R == Take(Cp, n) IN [i \in 1..Len(R) |-> Take(R[i], n)]
CropR(r, n) == IF r.tag = "ok" THEN Traced(Ok(Crop(r.val, n)), r.calls) ELSE r

\* assert n == len(B) == len(A[0]) == len(B[0]): the chain stops at the first
\* comparison that fails, so Y[0] is read only when len(Y) = n >= 1.
ShapeOk(X, Y, n) == n = Len(Y) /\ Len(Y) = Len(X[1]) /\ Len(X[1]) = Len(Y[1])

\* The entry point with the shape assertion placed before the order-0 return.
matmul_strassen_AssertFirst(X, Y, c) ==
    LET n == Len(X)
    IN  IF n # Len(Y) THEN NoCall("AssertionError")
        ELSE IF n = 0 THEN NoCall("IndexError")
        ELSE IF ~ShapeOk(X, Y, n) THEN NoCall("AssertionError")
        ELSE IF NotPow2(n)
             THEN LET m == PaddedOrder(n)
                  IN  CropR(_strassen_core(Pad(X, n, m), Pad(Y, n, m), c, 0), n)
             ELSE _strassen_core(X, Y, c, 0)

matmul_strassen(X, Y, c) ==
    LET n == Len(X)
    IN  IF n = 0 THEN Traced(Ok(<<>>), {})
        ELSE IF ~ShapeOk(X, Y, n) THEN NoCall("AssertionError")
        ELSE IF NotPow2(n)
             THEN LET m == PaddedOrder(n)
                  IN  CropR(_strassen_core(Pad(X, n, m), Pad(Y, n, m), c, 0), n)
             ELSE _strassen_core(X, Y, c, 0)

(* ------------- matrix_benchmark.py: Strassen-Winograd ------------------ *)

\* C11 = P5 + P4 - P2 + P6, C12 = P1 + P2, C21 = P3 + P4,
\* C22 = P5 + P1 - P3 - P7, then the four blocks joined.
WinogradCombine(P, m) ==
    LET C11 == add_r(sub_r(add_r(P[5], P[4]), P[2]), P[6])
        C12 == add_r(P[1], P[2])
        C21 == add_r(P[3], P[4])
        C22 == sub_r(sub_r(add_r(P[5], P[1]), P[3]), P[7])
    IN  Join(C11, C12, C21, C22, m)

RECURSIVE _strassen_winograd_core(_, _, _, _)
_strassen_winograd_core(X, Y, c, d) ==
    LET n == Len(X)
    IN  IF d > RecursionLimit THEN NoCall("RecursionError")
        ELSE IF BaseCase(n, c) THEN Traced(matmul_classic(X, Y), {CallRec(n, "classic", d)})
        ELSE
        LET m == Half(n)
            a11 == q11(X, m)
            a12 == q12(X, m)
            a21 == q21(X, m)
            a22 == q22(X, m)
            b11 == q11(Y, m)
            b12 == q12(Y, m)
            b21 == q21(Y, m)
            b22 == q22(Y, m)
            S1 == sub_matrix(b12, b22)
            S2 == add_matrix(a11, a12)
            S3 == add_matrix(a21, a22)
            S4 == sub_matrix(b21, b11)
            S5 == add_matrix(a11, a22)
            S6 == add_matrix(b11, b22)
            S7 == sub_matrix(a12, a22)
            S8 == add_matrix(b21, b22)
            S9 == sub_matrix(a11, a21)
            S10 == add_matrix(b11, b12)
            \* S1..S10 are all computed before the first recursive call
            firstS == LET bad == {i \in 1..10 :
                                    <<S1, S2, S3, S4, S5, S6, S7, S8, S9, S10>>[i].tag # "ok"}
                      IN  IF bad = {} THEN 0 ELSE CHOOSE i \in bad : \A k \in bad : i <= k
            rec(x, y) == _strassen_winograd_core(x.val, y.val, c, d + 1)
            P1 == rec(Ok(a11), S1)
            P2 == rec(S2, Ok(b22))
            P3 == rec(S3, Ok(b11))
            P4 == rec(Ok(a22), S4)
            P5 == rec(S5, S6)
            P6 == rec(S7, S8)
            P7 == rec(S9, S10)
            me == {CallRec(n, "split", d)}
            fail(ms) == Traced(Raise(ms[Len(ms)].tag), me \cup CallsUpTo(ms, Len(ms)))
        IN  IF firstS # 0
            THEN Traced(Raise(<<S1, S2, S3, S4, S5, S6, S7, S8, S9, S10>>[firstS].tag), me)
            ELSE IF P1.tag # "ok" THEN fail(<<P1>>)
            ELSE IF P2.tag # "ok" THEN fail(<<P1, P2>>)
            ELSE IF P3.tag # "ok" THEN fail(<<P1, P2, P3>>)
            ELSE IF P4.tag # "ok" THEN fail(<<P1, P2, P3, P4>>)
            ELSE IF P5.tag # "ok" THEN fail(<<P1, P2, P3, P4, P5>>)
            ELSE IF P6.tag # "ok" THEN fail(<<P1, P2, P3, P4, P5, P6>>)
            ELSE IF P7.tag # "ok" THEN fail(<<P1, P2, P3, P4, P5, P6, P7>>)
            ELSE Traced(WinogradCombine(<<P1, P2, P3, P4, P5, P6, P7>>, m),
                        me \cup CallsUpTo(<<P1, P2, P3, P4, P5, P6, P7>>, 7))

matmul_strassen_winograd(X, Y, c) ==
    LET n == Len(X)
    IN  IF n = 0 THEN Traced(Ok(<<>>), {})
        ELSE IF ~ShapeOk(X, Y, n) THEN NoCall("AssertionError")
        ELSE IF NotPow2(n)
             THEN LET m == PaddedOrder(n)
                  IN  CropR(_strassen_winograd_core(Pad(X, n, m), Pad(Y, n, m), c, 0), n)
             ELSE _strassen_winograd_core(X, Y, c, 0)

(* ----------------------- answer.py: Strassen --------------------------- *)

\* The core without the odd-order fallback.
OddFallback_Never(n) == FALSE

\* if n % 2 == 1: the odd-order fallback
OddFallback(n) == n % 2 = 1

answer_Combine(M, m) ==
    LET c11 == sub_r(add_r(add_r(M[1], M[4]), M[7]), M[5])
        c12 == add_r(M[3], M[5])
        c21 == add_r(M[2], M[4])
        c22 == add_r(sub_r(add_r(M[1], M[3]), M[2]), M[6])
    IN  Join(c11, c12, c21, c22, m)

RECURSIVE strassen_core(_, _, _, _)
strassen_core(X, Y, c, d) ==
    LET n == Len(X)
    IN  IF d > RecursionLimit THEN NoCall("RecursionError")
        ELSE IF BaseCase(n, c) THEN Traced(matmul_classic(X, Y), {CallRec(n, "classic", d)})
        ELSE IF OddFallback(n) THEN Traced(matmul_classic(X, Y), {CallRec(n, "odd", d)})
        ELSE
        LET m == Half(n)
            a11 == q11(X, m)
            a12 == q12(X, m)
            a21 == q21(X, m)
            a22 == q22(X, m)
            b11 == q11(Y, m)
            b12 == q12(Y, m)
            b21 == q21(Y, m)
            b22 == q22(Y, m)
            rec(x, y) ==
                IF x.tag # "ok" THEN NoCall(x.tag)
                ELSE IF y.tag # "ok" THEN NoCall(y.tag)
                ELSE strassen_core(x.val, y.val, c, d + 1)
            m1 == rec(add_matrix(a11, a22), add_matrix(b11, b22))
            m2 == rec(add_matrix(a21, a22), Ok(b11))
            m3 == rec(Ok(a11), sub_matrix(b12, b22))
            m4 == rec(Ok(a22), sub_matrix(b21, b11))
            m5 == rec(add_matrix(a11, a12), Ok(b22))
            m6 == rec(sub_matrix(a21, a11), add_matrix(b11, b12))
            m7 == rec(sub_matrix(a12, a22), add_matrix(b21, b22))
            me == {CallRec(n, "split", d)}
            fail(ms) == Traced(Raise(ms[Len(ms)].tag), me \cup CallsUpTo(ms, Len(ms)))
        IN  IF m1.tag # "ok" THEN fail(<<m1>>)
            ELSE IF m2.tag # "ok" THEN fail(<<m1, m2>>)
            ELSE IF m3.tag # "ok" THEN fail(<<m1, m2, m3>>)
            ELSE IF m4.tag # "ok" THEN fail(<<m1, m2, m3, m4>>)
            ELSE IF m5.tag # "ok" THEN fail(<<m1, m2, m3, m4, m5>>)
            ELSE IF m6.tag # "ok" THEN fail(<<m1, m2, m3, m4, m5, m6>>)
            ELSE IF m7.tag # "ok" THEN fail(<<m1, m2, m3, m4, m5, m6, m7>>)
            ELSE Traced(answer_Combine(<<m1, m2, m3, m4, m5, m6, m7>>, m),
                        me \cup CallsUpTo(<<m1, m2, m3, m4, m5, m6, m7>>, 7))

\* if n != len(B) or n != len(A[0]) or n != len(B[0]): raise ValueError; the
\* `or` chain reads B[0] only when len(B) = n >= 1.
answer_ShapeBad(X, Y, n) == n # Len(Y) \/ n # Len(X[1]) \/ n # Len(Y[1])

\* The entry point without the order-0 return: an empty A reaches the core.
answer_matmul_strassen_NoEmptyReturn(X, Y, c) ==
    LET n == Len(X)
    IN  IF n > 0 /\ answer_ShapeBad(X, Y, n) THEN NoCall("ValueError")
        ELSE strassen_core(X, Y, c, 0)

answer_matmul_strassen(X, Y, c) ==
    LET n == Len(X)
    IN  IF n = 0 THEN Traced(Ok(<<>>), {})
        ELSE IF answer_ShapeBad(X, Y, n) THEN NoCall("ValueError")
        ELSE strassen_core(X, Y, c, 0)

(* ------------------- the same code on the object store ----------------- *)
(* A Python list is an object: h[r] is the list at address r, its items     *)
(* integers (a row) or addresses of rows (a matrix). An interpreter state   *)
(* is [h, tag, ref, pure]: the store, "ok" or the exception being raised,   *)
(* the address of the last value built, and whether every statement so far  *)
(* left the objects that existed before it as they were. A statement run    *)
(* in a state that is raising does nothing.                                 *)

Value(h, r) == [i \in 1..Len(h[r]) |-> h[h[r][i]]]
Untouched(hin, hout) == Len(hout) >= Len(hin) /\ SubSeq(hout, 1, Len(hin)) = hin

\* A list of fresh lists: [[...] for ...]
New(s, M) ==
    [h |-> s.h \o M \o <<[i \in 1..Len(M) |-> Len(s.h) + i]>>,
     tag |-> "ok", ref |-> Len(s.h) + Len(M) + 1, pure |-> s.pure]

Raising(s, e) == [h |-> s.h, tag |-> e, ref |-> 0, pure |-> s.pure]

\* The i and k loops of matmul_classic after t iterations of the k loop body:
\* Ci = C[i]; Ci[j] += A[i][k] * B[k][j] for j in range(n).
RECURSIVE h_classic_loop(_, _, _, _, _, _)
h_classic_loop(h, a, b, c, n, t) ==
    IF t = 0 THEN h
    ELSE LET h0 == h_classic_loop(h, a, b, c, n, t - 1)
             i == ((t - 1) \div n) + 1
             k == ((t - 1) % n) + 1
             Ci == h0[c][i]
         IN  [h0 EXCEPT ![Ci] = AccRow(h0[Ci], h0[h0[a][i]][k], h0[h0[b][k]], n)]

h_matmul_classic(s, a, b) ==
    IF s.tag # "ok" THEN s
    ELSE LET n == Len(s.h[a])
             C == New(s, [i \in 1..n |-> Zeros(n)])
         IN  IF Readable(Value(s.h, a), n) /\ Readable(Value(s.h, b), n)
             THEN LET h1 == h_classic_loop(C.h, a, b, C.ref, n, n * n)
                  IN  [h |-> h1, tag |-> "ok", ref |-> C.ref,
                       pure |-> s.pure /\ Untouched(s.h, h1)]
             ELSE Raising(C, "IndexError")

\* add_matrix accumulating into the rows of its first operand and returning it.
h_add_matrix_InPlace(s, a, b) ==
    IF s.tag # "ok" THEN s
    ELSE LET r == add_matrix(Value(s.h, a), Value(s.h, b))
             h1 == [x \in 1..Len(s.h) |->
                      IF \E i \in 1..Len(r.val) : s.h[a][i] = x
                      THEN r.val[CHOOSE i \in 1..Len(r.val) : s.h[a][i] = x]
                      ELSE s.h[x]]
         IN  IF r.tag = "ok"
             THEN [h |-> h1, tag |-> "ok", ref |-> a, pure |-> s.pure /\ Untouched(s.h, h1)]
             ELSE Raising(s, r.tag)

h_add_matrix(s, a, b) ==
    IF s.tag # "ok" THEN s
    ELSE LET r == add_matrix(Value(s.h, a), Value(s.h, b))
         IN  IF r.tag = "ok" THEN New(s, r.val) ELSE Raising(s, r.tag)

h_sub_matrix(s, a, b) ==
    IF s.tag # "ok" THEN s
    ELSE LET r == sub_matrix(Value(s.h, a), Value(s.h, b))
         IN  IF r.tag = "ok" THEN New(s, r.val) ELSE Raising(s, r.tag)

\* [row[..] for row in X[..]]: one quadrant, a list of fresh rows
Quadrant(X, q, m) ==
    CASE q = "11" -> q11(X, m)
      [] q = "12" -> q12(X, m)
      [] q = "21" -> q21(X, m)
      [] q = "22" -> q22(X, m)

\* [row[..] for row in X[..]]: one quadrant, a list of fresh rows
h_slice(s, x, q, m) ==
    IF s.tag # "ok" THEN s ELSE New(s, Quadrant(Value(s.h, x), q, m))

h_join(s, c11, c12, c21, c22, m) ==
    IF s.tag # "ok" THEN s
    ELSE LET r == JoinVal(Value(s.h, c11), Value(s.h, c12),
                          Value(s.h, c21), Value(s.h, c22), m)
         IN  IF r.tag = "ok" THEN New(s, r.val) ELSE Raising(s, r.tag)

\* One statement of a core's body: dst = op(x, y).
St(dst, op, x, y) == [dst |-> dst, op |-> op, x |-> x, y |-> y]

\* The eight quadrant comprehensions, in the order of the source.
SplitBody ==
    << St("a11", "slice", "A", "11"), St("a12", "slice", "A", "12"),
       St("a21", "slice", "A", "21"), St("a22", "slice", "A", "22"),
       St("b11", "slice", "B", "11"), St("b12", "slice", "B", "12"),
       St("b21", "slice", "B", "21"), St("b22", "slice", "B", "22") >>

\* The statements of _strassen_core after the split (those of answer.py's
\* strassen_core are the same): t.. and u.., v.. name the values of the
\* nested calls, in the order Python evaluates them.
StrassenBody ==
    SplitBody \o
    << St("t1", "add", "a11", "a22"), St("t2", "add", "b11", "b22"),
       St("M1", "rec", "t1", "t2"),
       St("t3", "add", "a21", "a22"), St("M2", "rec", "t3", "b11"),
       St("t4", "sub", "b12", "b22"), St("M3", "rec", "a11", "t4"),
       St("t5", "sub", "b21", "b11"), St("M4", "rec", "a22", "t5"),
       St("t6", "add", "a11", "a12"), St("M5", "rec", "t6", "b22"),
       St("t7", "sub", "a21", "a11"), St("t8", "add", "b11", "b12"),
       St("M6", "rec", "t7", "t8"),
       St("t9", "sub", "a12", "a22"), St("t10", "add", "b21", "b22"),
       St("M7", "rec", "t9", "t10"),
       St("u1", "add", "M1", "M4"), St("u2", "add", "u1", "M7"),
       St("c11", "sub", "u2", "M5"),
       St("c12", "add", "M3", "M5"),
       St("c21", "add", "M2", "M4"),
       St("v1", "add", "M1", "M3"), St("v2", "sub", "v1", "M2"),
       St("c22", "add", "v2", "M6"),
       St("C", "join", "c11", "c22") >>

\* The statements of _strassen_winograd_core after the split.
WinogradBody ==
    SplitBody \o
    << St("S1", "sub", "b12", "b22"), St("S2", "add", "a11", "a12"),
       St("S3", "add", "a21", "a22"), St("S4", "sub", "b21", "b11"),
       St("S5", "add", "a11", "a22"), St("S6", "add", "b11", "b22"),
       St("S7", "sub", "a12", "a22"), St("S8", "add", "b21", "b22"),
       St("S9", "sub", "a11", "a21"), St("S10", "add", "b11", "b12"),
       St("P1", "rec", "a11", "S1"), St("P2", "rec", "S2", "b22"),
       St("P3", "rec", "S3", "b11"), St("P4", "rec", "a22", "S4"),
       St("P5", "rec", "S5", "S6"), St("P6", "rec", "S7", "S8"),
       St("P7", "rec", "S9", "S10"),
       St("u1", "add", "P5", "P4"), St("u2", "sub", "u1", "P2"),
       St("c11", "add", "u2", "P6"),
       St("c12", "add", "P1", "P2"),
       St("c21", "add", "P3", "P4"),
       St("v1", "add", "P5", "P1"), St("v2", "sub", "v1", "P3"),
       St("c22", "sub", "v2", "P7"),
       St("C", "join", "c11", "c22") >>

Body(core) == IF core = "_strassen_winograd_core" THEN WinogradBody ELSE StrassenBody

RECURSIVE h_core(_, _, _, _, _, _)
RECURSIVE h_run(_, _, _, _, _, _)

\* Statement st of a core's body, run in state s with the local names env.
h_exec(core, s, env, st, c, d) ==
    LET m == Half(Len(s.h[env["A"]]))
    IN  CASE st.op = "slice" -> h_slice(s, env[st.x], st.y, m)
          [] st.op = "add" -> h_add_matrix(s, env[st.x], env[st.y])
          [] st.op = "sub" -> h_sub_matrix(s, env[st.x], env[st.y])
          [] st.op = "rec" -> h_core(core, s, env[st.x], env[st.y], c, d + 1)
          [] st.op = "join" ->
                h_join(s, env["c11"], env["c12"], env["c21"], env["c22"], m)

\* The statements of the body from the i-th on; an exception ends the body.
h_run(core, s, env, i, c, d) ==
    IF s.tag # "ok" \/ i > Len(Body(core)) THEN s
    ELSE LET st == Body(core)[i]
             s1 == h_exec(core, s, env, st, c, d)
         IN  h_run(core, s1, (st.dst :> s1.ref) @@ env, i + 1, c, d)

\* A call of the recursive core named `core` on the lists at a and b.
h_core(core, s, a, b, c, d) ==
    LET n == Len(s.h[a])
    IN  IF d > RecursionLimit THEN Raising(s, "RecursionError")
        ELSE IF BaseCase(n, c) THEN h_matmul_classic(s, a, b)
        ELSE IF core = "strassen_core" /\ OddFallback(n) THEN h_matmul_classic(s, a, b)
        ELSE h_run(core, s, ("A" :> a) @@ ("B" :> b), 1, c, d)

\* Ap, Bp, the core on them, and the crop: the padding path of an entry point.
h_padded(core, s, a, b, n, c) ==
    LET m == PaddedOrder(n)
        Ap == New(s, Pad(Value(s.h, a), n, m))
        Bp == New(Ap, Pad(Value(s.h, b), n, m))
        Cp == h_core(core, Bp, Ap.ref, Bp.ref, c, 0)
    IN  IF Cp.tag = "ok" THEN New(Cp, Crop(Value(Cp.h, Cp.ref), n)) ELSE Cp

h_matmul_strassen(s, a, b, c) ==
    LET n == Len(s.h[a])
    IN  IF n = 0 THEN New(s, <<>>)
        ELSE IF ~ShapeOk(Value(s.h, a), Value(s.h, b), n) THEN Raising(s, "AssertionError")
        ELSE IF NotPow2(n) THEN h_padded("_strassen_core", s, a, b, n, c)
        ELSE h_core("_strassen_core", s, a, b, c, 0)

h_matmul_strassen_winograd(s, a, b, c) ==
    LET n == Len(s.h[a])
    IN  IF n = 0 THEN New(s, <<>>)
        ELSE IF ~ShapeOk(Value(s.h, a), Value(s.h, b), n) THEN Raising(s, "AssertionError")
        ELSE IF NotPow2(n) THEN h_padded("_strassen_winograd_core", s, a, b, n, c)
        ELSE h_core("_strassen_winograd_core", s, a, b, c, 0)

h_answer_matmul_strassen(s, a, b, c) ==
    LET n == Len(s.h[a])
    IN  IF n = 0 THEN New(s, <<>>)
        ELSE IF answer_ShapeBad(Value(s.h, a), Value(s.h, b), n) THEN Raising(s, "ValueError")
        ELSE h_core("strassen_core", s, a, b, c, 0)

(* ------------------------------ operands ------------------------------- *)

\* Entry (i, j) of the s-th filling: integers in -3..3.
Entry(i, j, s) == ((s * s + 3 * i * s + 5 * j + 2 * i * j * s + i * i) % 7) - 3

\* The r-by-c operand with the s-th filling.
Operand(r, c, s) == [i \in 1..r |-> [j \in 1..c |-> Entry(i, j, s)]]

\* The empty matrix, and square and off-by-one rectangular operands.
Shapes == {<<r, c>> \in (1..MaxN) \X (1..MaxN) : r - c \in {-1, 0, 1}}
Operands == {<<>>} \cup {Operand(sh[1], sh[2], s) : sh \in Shapes, s \in 1..MaxSeed}

Cutoffs == (-1)..MaxCutoff

\* The operands held in the object store.
HeapShapes == {<<r, c>> \in (1..HeapMaxN) \X (1..HeapMaxN) : r - c \in {-1, 0, 1}}
HeapOperands ==
    {<<>>} \cup {Operand(sh[1], sh[2], s) : sh \in HeapShapes, s \in 1..MaxSeed}

\* The store holding operand X, then operand Y, and nothing else.
NoStore == [h |-> <<>>, tag |-> "ok", ref |-> 0, pure |-> TRUE]
OperandStore(X, Y) == New(New(NoStore, X), Y)
refA == Len(A) + 1
refB == Len(A) + 1 + Len(B) + 1

(* ---------------------------- state machine ---------------------------- *)

Init ==
    /\ A \in Operands
    /\ B \in Operands
    /\ cutoff \in Cutoffs
    /\ called = "none"
    /\ ret = NoCall("none")
    /\ store = NoStore

Call_matmul_classic ==
    /\ called = "none"
    /\ called' = "matmul_classic"
    /\ ret' = Traced(matmul_classic(A, B), {})
    /\ UNCHANGED <<A, B, cutoff, store>>

Call_add_matrix ==
    /\ called = "none"
    /\ called' = "add_matrix"
    /\ ret' = Traced(add_matrix(A, B), {})
    /\ UNCHANGED <<A, B, cutoff, store>>

Call_sub_matrix ==
    /\ called = "none"
    /\ called' = "sub_matrix"
    /\ ret' = Traced(sub_matrix(A, B), {})
    /\ UNCHANGED <<A, B, cutoff, store>>

Call_matmul_strassen ==
    /\ called = "none"
    /\ called' = "matmul_strassen"
    /\ ret' = matmul_strassen(A, B, cutoff)
    /\ UNCHANGED <<A, B, cutoff, store>>

Call_matmul_strassen_winograd ==
    /\ called = "none"
    /\ called' = "matmul_strassen_winograd"
    /\ ret' = matmul_strassen_winograd(A, B, cutoff)
    /\ UNCHANGED <<A, B, cutoff, store>>

Call_answer_matmul_strassen ==
    /\ called = "none"
    /\ called' = "answer_matmul_strassen"
    /\ ret' = answer_matmul_strassen(A, B, cutoff)
    /\ UNCHANGED <<A, B, cutoff, store>>

Next ==
    \/ Call_matmul_classic
    \/ Call_add_matrix
    \/ Call_sub_matrix
    \/ Call_matmul_strassen
    \/ Call_matmul_strassen_winograd
    \/ Call_answer_matmul_strassen

Spec == Init /\ [][Next]_vars

(* ------------------ state machine on the object store ------------------ *)

HeapInit ==
    /\ A \in HeapOperands
    /\ B \in HeapOperands
    /\ cutoff \in Cutoffs
    /\ called = "none"
    /\ ret = NoCall("none")
    /\ store = OperandStore(A, B)

HeapCall_matmul_classic ==
    /\ called = "none"
    /\ called' = "matmul_classic"
    /\ store' = h_matmul_classic(store, refA, refB)
    /\ UNCHANGED <<A, B, cutoff, ret>>

HeapCall_add_matrix ==
    /\ called = "none"
    /\ called' = "add_matrix"
    /\ store' = h_add_matrix(store, refA, refB)
    /\ UNCHANGED <<A, B, cutoff, ret>>

HeapCall_sub_matrix ==
    /\ called = "none"
    /\ called' = "sub_matrix"
    /\ store' = h_sub_matrix(store, refA, refB)
    /\ UNCHANGED <<A, B, cutoff, ret>>

HeapCall_matmul_strassen ==
    /\ called = "none"
    /\ called' = "matmul_strassen"
    /\ store' = h_matmul_strassen(store, refA, refB, cutoff)
    /\ UNCHANGED <<A, B, cutoff, ret>>

HeapCall_matmul_strassen_winograd ==
    /\ called = "none"
    /\ called' = "matmul_strassen_winograd"
    /\ store' = h_matmul_strassen_winograd(store, refA, refB, cutoff)
    /\ UNCHANGED <<A, B, cutoff, ret>>

HeapCall_answer_matmul_strassen ==
    /\ called = "none"
    /\ called' = "answer_matmul_strassen"
    /\ store' = h_answer_matmul_strassen(store, refA, refB, cutoff)
    /\ UNCHANGED <<A, B, cutoff, ret>>

HeapNext ==
    \/ HeapCall_matmul_classic
    \/ HeapCall_add_matrix
    \/ HeapCall_sub_matrix
    \/ HeapCall_matmul_strassen
    \/ HeapCall_matmul_strassen_winograd
    \/ HeapCall_answer_matmul_strassen

HeapSpec == HeapInit /\ [][HeapNext]_vars

(* ------------------------ vocabulary of the claims --------------------- *)

IsSquare(X) == \A i \in 1..Len(X) : Len(X[i]) = Len(X)
\* Square operands of equal order.
ValidPair == IsSquare(A) /\ IsSquare(B) /\ Len(A) = Len(B)

RECURSIVE IsPow2(_)
IsPow2(n) == IF n <= 1 THEN n = 1 ELSE n % 2 = 0 /\ IsPow2(n \div 2)

\* ceil(log2 n) for n >= 1: the number of doublings of 1 needed to reach n.
RECURSIVE Doublings(_, _)
Doublings(p, n) == IF p >= n THEN 0 ELSE 1 + Doublings(2 * p, n)
CeilLog2(n) == Doublings(1, n)

\* The product by the definition: C[i][j] = sum over k of X[i][k] * Y[k][j].
RECURSIVE Dot(_, _, _, _, _)
Dot(X, Y, i, j, k) == IF k = 0 THEN 0 ELSE Dot(X, Y, i, j, k - 1) + X[i][k] * Y[k][j]
Product(X, Y) == [i \in 1..Len(X) |-> [j \in 1..Len(X) |-> Dot(X, Y, i, j, Len(X))]]

PaddingEntries == {"matmul_strassen", "matmul_strassen_winograd"}
RecursiveEntries == PaddingEntries \cup {"answer_matmul_strassen"}
ValidationErrors == {"AssertionError", "ValueError"}

(* ------------------------------- claims -------------------------------- *)

\* C1: for square operands of equal order and every cutoff >= 1, the
\* classical, the Strassen and the Strassen-Winograd entry points all return
\* the same matrix, the product of A and B, entry by entry.
C1_Equivalence ==
    (ValidPair /\ cutoff >= 1 /\ called \in PaddingEntries \cup {"matmul_classic"})
        => /\ ret.tag = "ok"
           /\ ret.val = matmul_classic(A, B).val
           /\ ret.val = Product(A, B)

C1_Witness ==
    /\ ValidPair /\ cutoff = 1 /\ Len(A) = 4
    /\ called = "matmul_strassen_winograd"
    /\ ret.tag = "ok"
    /\ ret.val = Product(A, B)
    /\ \E i, j \in 1..4 : ret.val[i][j] # 0
    /\ \E k \in ret.calls : k.level = 2

\* C2: for an order n >= 1 that is not a power of two, padding both operands
\* with zeros to the next power of two, multiplying and cropping to the
\* leading n-by-n block gives the classical product of the unpadded operands,
\* for the classical product of the padded operands and for both entry points.
C2_PaddingTransparency ==
    (ValidPair /\ Len(A) >= 1 /\ ~IsPow2(Len(A)))
        => LET n == Len(A)
               m == PaddedOrder(n)
           IN  /\ Crop(matmul_classic(Pad(A, n, m), Pad(B, n, m)).val, n)
                    = matmul_classic(A, B).val
               /\ (cutoff >= 1 /\ called \in PaddingEntries)
                    => (ret.tag = "ok" /\ ret.val = matmul_classic(A, B).val)

C2_Witness ==
    /\ ValidPair /\ Len(A) = 5 /\ cutoff = 2
    /\ called = "matmul_strassen"
    /\ ret.tag = "ok"
    /\ Len(ret.val) = 5
    /\ ret.val = matmul_classic(A, B).val
    /\ \E k \in ret.calls : k.order = 8 /\ k.branch = "split"

\* C3: the recursive entry points end with a shape error whenever an operand
\* is not square or the orders differ, the empty operand included.
C3_ShapeErrorAlways ==
    (called \in RecursiveEntries /\ ~ValidPair) => ret.tag \in ValidationErrors

\* C4: matmul_classic raises whenever the orders of its square operands
\* differ, whichever operand is the larger.
C4_ClassicMismatchRaises ==
    (called = "matmul_classic" /\ IsSquare(A) /\ IsSquare(B) /\ Len(A) # Len(B))
        => ret.tag # "ok"

\* C5: with both operands the empty matrix every entry point returns the
\* empty matrix, for every cutoff >= 1, raising nothing and making no call of
\* a recursive core.
C5_ZeroOrder ==
    (A = <<>> /\ B = <<>> /\ cutoff >= 1
       /\ called \in RecursiveEntries \cup {"matmul_classic"})
        => (ret.tag = "ok" /\ ret.val = <<>> /\ ret.calls = {})

C5_Witness ==
    /\ A = <<>> /\ B = <<>> /\ cutoff = 1
    /\ called = "matmul_strassen"
    /\ ret = Traced(Ok(<<>>), {})

\* C7: in the padding variant with cutoff >= 1 the padded order is the least
\* power of two not below n, every call of a recursive core has an order that
\* is a power of two, and no matrix of odd order is split.
C7_PowerOfTwoOrders ==
    (ValidPair /\ Len(A) >= 1 /\ cutoff >= 1 /\ called \in PaddingEntries)
        => LET n == Len(A)
               m == PaddedOrder(n)
           IN  /\ IsPow2(m) /\ m >= n /\ m < 2 * n
               /\ \A k \in ret.calls :
                    /\ IsPow2(k.order)
                    /\ k.order <= m
                    /\ k.branch = "split" => k.order % 2 = 0

C7_Witness ==
    /\ ValidPair /\ Len(A) = 6 /\ cutoff = 1
    /\ called = "matmul_strassen"
    /\ {k.order : k \in ret.calls} = {8, 4, 2, 1}

\* C8: in answer.py a core call of odd order above the cutoff returns the
\* classical product with no split and no call below it, at every level; a
\* split happens exactly for an even order above the cutoff.
C8_OddOrderPolicy ==
    (ValidPair /\ called = "answer_matmul_strassen")
        => /\ \A k \in ret.calls :
                /\ k.branch = "split" <=> (k.order % 2 = 0 /\ k.order > cutoff)
                /\ (k.order % 2 = 1 /\ k.order > cutoff)
                     => /\ k.branch = "odd"
                        /\ \A e \in ret.calls : e.level <= k.level
           /\ (Len(A) % 2 = 1 /\ Len(A) > cutoff)
                => /\ ret.calls = {CallRec(Len(A), "odd", 0)}
                   /\ ret.val = matmul_classic(A, B).val

C8_Witness ==
    /\ ValidPair /\ Len(A) = 6 /\ cutoff = 2
    /\ called = "answer_matmul_strassen"
    /\ ret.calls = {CallRec(6, "split", 0), CallRec(3, "odd", 1)}

\* C9: with cutoff >= 1 every entry point ends: for valid operands with a
\* matrix, and a recursive entry point otherwise with a matrix or a validation
\* error, never with RecursionError; a recursive core call has exactly half
\* the order of its caller and is nested at most ceil(log2 n) deep.
C9_Termination ==
    (cutoff >= 1 /\ called \in RecursiveEntries \cup {"matmul_classic"})
        => /\ called \in RecursiveEntries => ret.tag \in {"ok"} \cup ValidationErrors
           /\ ValidPair => ret.tag = "ok"
           /\ \A k \in ret.calls :
                /\ k.level >= 1 =>
                     \E q \in ret.calls :
                        q.level = k.level - 1 /\ q.branch = "split" /\ q.order = 2 * k.order
                /\ k.level <= CeilLog2(Len(A))

C9_Witness ==
    /\ ValidPair /\ Len(A) = 5 /\ cutoff = 1
    /\ called = "matmul_strassen"
    /\ ret.tag = "ok"
    /\ \E k \in ret.calls : k.level = 3 /\ k.order = 1

\* C10: the Strassen entry point of answer.py ends with the classical product
\* for square operands of equal order and every integer cutoff, zero and
\* negative included, and its core never splits a matrix of order below 2.
C10_AnswerAnyCutoff ==
    (ValidPair /\ called = "answer_matmul_strassen")
        => /\ ret.tag = "ok"
           /\ ret.val = matmul_classic(A, B).val
           /\ ret.val = Product(A, B)
           /\ \A k \in ret.calls : k.branch = "split" => k.order >= 2

C10_Witness ==
    /\ ValidPair /\ Len(A) = 4 /\ cutoff = -1
    /\ called = "answer_matmul_strassen"
    /\ ret.tag = "ok"
    /\ ret.val = Product(A, B)
    /\ CallRec(1, "odd", 2) \in ret.calls

\* C6: every operation is pure. After a call of matmul_classic, add_matrix,
\* sub_matrix or an entry point (the padding path included) the operand
\* objects hold what they held before it, and so does every object any
\* statement run on the way found in the store: a quadrant handed to a
\* recursive call is the same when the caller reads it again.
C6_Purity ==
    /\ Untouched(OperandStore(A, B).h, store.h)
    /\ Value(store.h, refA) = A
    /\ Value(store.h, refB) = B
    /\ store.pure

C6_Witness ==
    /\ ValidPair /\ Len(A) = 3 /\ cutoff = 1
    /\ called = "matmul_strassen"
    /\ store.tag = "ok"
    /\ store.ref > refB
    /\ Value(store.h, store.ref) = Product(A, B)
    /\ Value(store.h, refA) = A
    /\ Value(store.h, refB) = B

====
